---------------------------- MODULE Spec2Model ----------------------------
(***************************************************************************)
(* Model of debug_csv_search.py: main() loads the employee CSV, groups the *)
(* rows by department, builds one Document per department, splits the     *)
(* Documents into chunks, stores them in a Chroma vector store and runs a  *)
(* fixed list of probe queries.                                            *)
(*                                                                         *)
(* Text.  A Python str is a sequence of characters; each character is one  *)
(* element of a TLA+ sequence.  The module is ASCII, so every Japanese     *)
(* character is written as one romanised token ("fu" for U+4E0D, "mei" for *)
(* U+660E, ...): Len of a sequence is len() of the Python string.          *)
(* A value that may be None is a record [isNone, s].                       *)
(***************************************************************************)
EXTENDS Integers, Sequences, FiniteSets, TLC

VARIABLES
    file,         \* the CSV source: exists, readable, header, lines of cells
    store,        \* the entries persisted in ./.chroma_debug
    ranker,       \* the similarity ranking of the embedding model
    pc,           \* the phase main() is in
    rows,         \* load_employee_csv: rows
    dept_groups,  \* load_employee_csv: dept_groups
    docs,         \* the Documents load_employee_csv built
    texts,        \* create_vector_store: texts, the chunks
    vectorstore,  \* main: TRUE once create_vector_store returned the store
    qi,           \* index in test_queries of the next query
    results,      \* test_search: results of the last query
    calls,        \* the calls made to the Chroma collaborator, in order
    log           \* the console transcript

vars == <<file, store, ranker, pc, rows, dept_groups, docs, texts, vectorstore,
          qi, results, calls, log>>

(***************************************************************************)
(* Bounds of the model.                                                    *)
(***************************************************************************)
MaxRows == 3
LongLen == 450
MaxPrior == 6
ShortCells == 3

(***************************************************************************)
(* Program constants.                                                      *)
(***************************************************************************)
CHUNK_SIZE == 500
CHUNK_OVERLAP == 50
RETRIEVER_SEARCH_K == 5
SAMPLE_LEN == 500
PREVIEW_LEN == 300

NL == "\n"
SP == " "

Str(s) == [isNone |-> FALSE, s |-> s]
None == [isNone |-> TRUE, s |-> <<>>]

\* os.path.join(DATA_DIR_PATH, "社員について", "社員名簿.csv")
csv_path == "./data/shain-ni-tsuite/shain-meibo.csv"

\* '不明', the default of row.get('部署', '不明')
UNKNOWN_DEPT == Str(<<"fu", "mei">>)

\* f"{v}": str(None) is the four characters None
Format(v) == IF v.isNone THEN <<"N", "o", "n", "e">> ELSE v.s

\* dict.get(key, default)
Get(d, key, default) == IF key \in DOMAIN d THEN d[key] ELSE default

RECURSIVE Join(_, _)
\* sep.join(parts)
Join(parts, sep) ==
    IF parts = <<>> THEN <<>>
    ELSE IF Len(parts) = 1 THEN parts[1]
    ELSE parts[1] \o sep \o Join(Tail(parts), sep)

(***************************************************************************)
(* csv.DictReader: the first line gives the field names; a line with no    *)
(* cells is skipped; a line with fewer cells than field names has the      *)
(* remaining fields set to None (restval).                                 *)
(***************************************************************************)
DictRow(header, cells) ==
    [k \in {header[i] : i \in 1..Len(header)} |->
        LET i == CHOOSE j \in 1..Len(header) : header[j] = k
        IN  IF i <= Len(cells) THEN Str(cells[i]) ELSE None]

RECURSIVE DictReader_KeepBlank(_, _)
\* a reader that does not skip the lines without cells
DictReader_KeepBlank(header, lines) ==
    IF lines = <<>> THEN <<>>
    ELSE <<DictRow(header, Head(lines))>> \o DictReader_KeepBlank(header, Tail(lines))

RECURSIVE DictReader(_, _)
DictReader(header, lines) ==
    IF lines = <<>> THEN <<>>
    ELSE IF Head(lines) = <<>> THEN DictReader(header, Tail(lines))
    ELSE <<DictRow(header, Head(lines))>> \o DictReader(header, Tail(lines))

(***************************************************************************)
(* Grouping, lines 39-44.  dept_groups is a Python dict: keys in insertion *)
(* order, each key mapped to the list of its rows.  A row is held by       *)
(* reference, so a bucket is the sequence of the indices of its rows.      *)
(***************************************************************************)
DeptKey(row) == Get(row, "busho", UNKNOWN_DEPT)

HasKey(groups, k) == \E i \in 1..Len(groups) : groups[i].key = k

\* dept_groups[dept] = [row] in place of the append of line 44
AppendRow_Overwrite(groups, k, r) ==
    IF HasKey(groups, k)
    THEN [i \in 1..Len(groups) |->
            IF groups[i].key = k THEN [key |-> k, employees |-> <<r>>] ELSE groups[i]]
    ELSE Append(groups, [key |-> k, employees |-> <<r>>])

AppendRow(groups, k, r) ==
    IF HasKey(groups, k)
    THEN [i \in 1..Len(groups) |->
            IF groups[i].key = k
            THEN [key |-> k, employees |-> Append(groups[i].employees, r)]
            ELSE groups[i]]
    ELSE Append(groups, [key |-> k, employees |-> <<r>>])

RECURSIVE GroupFrom(_, _, _)
GroupFrom(rs, r, groups) ==
    IF r > Len(rs) THEN groups
    ELSE GroupFrom(rs, r + 1, AppendRow(groups, DeptKey(rs[r]), r))

GroupByDept(rs) == GroupFrom(rs, 1, <<>>)

(***************************************************************************)
(* Document building, lines 51-70.                                         *)
(***************************************************************************)
HeaderLine(dept) ==
    <<"[[">> \o Format(dept) \o <<"no", "juu", "gyou", "in", "ichi", "ran", "]]", NL>>

\* the department and the position written in the other order
EmpInfo_Swapped(emp) ==
       <<"sha", "in", "I", "D", ":", SP>> \o Format(Get(emp, "shainID", Str(<<>>))) \o <<",", SP>>
    \o <<"shi", "mei", ":", SP>> \o Format(Get(emp, "shimei", Str(<<>>))) \o <<",", SP>>
    \o <<"sei", "betsu", ":", SP>> \o Format(Get(emp, "seibetsu", Str(<<>>))) \o <<",", SP>>
    \o <<"nen", "rei", ":", SP>> \o Format(Get(emp, "nenrei", Str(<<>>))) \o <<"sai", ",", SP>>
    \o <<"juu", "gyou", "in", "ku", "bun", ":", SP>> \o Format(Get(emp, "kubun", Str(<<>>))) \o <<",", SP>>
    \o <<"yaku", "shoku", ":", SP>> \o Format(Get(emp, "yakushoku", Str(<<>>))) \o <<",", SP>>
    \o <<"bu", "sho", ":", SP>> \o Format(Get(emp, "busho", Str(<<>>))) \o <<",", SP>>
    \o <<"su", "ki", "ru", "se", "tto", "to", ":", SP>> \o Format(Get(emp, "skill", Str(<<>>))) \o <<",", SP>>
    \o <<"ho", "yuu", "shi", "kaku", ":", SP>> \o Format(Get(emp, "shikaku", Str(<<>>)))

EmpInfo(emp) ==
       <<"sha", "in", "I", "D", ":", SP>> \o Format(Get(emp, "shainID", Str(<<>>))) \o <<",", SP>>
    \o <<"shi", "mei", ":", SP>> \o Format(Get(emp, "shimei", Str(<<>>))) \o <<",", SP>>
    \o <<"sei", "betsu", ":", SP>> \o Format(Get(emp, "seibetsu", Str(<<>>))) \o <<",", SP>>
    \o <<"nen", "rei", ":", SP>> \o Format(Get(emp, "nenrei", Str(<<>>))) \o <<"sai", ",", SP>>
    \o <<"juu", "gyou", "in", "ku", "bun", ":", SP>> \o Format(Get(emp, "kubun", Str(<<>>))) \o <<",", SP>>
    \o <<"bu", "sho", ":", SP>> \o Format(Get(emp, "busho", Str(<<>>))) \o <<",", SP>>
    \o <<"yaku", "shoku", ":", SP>> \o Format(Get(emp, "yakushoku", Str(<<>>))) \o <<",", SP>>
    \o <<"su", "ki", "ru", "se", "tto", "to", ":", SP>> \o Format(Get(emp, "skill", Str(<<>>))) \o <<",", SP>>
    \o <<"ho", "yuu", "shi", "kaku", ":", SP>> \o Format(Get(emp, "shikaku", Str(<<>>)))

ContentLines(rs, g) ==
    <<HeaderLine(g.key)>> \o [j \in 1..Len(g.employees) |-> EmpInfo(rs[g.employees[j]])]

BuildDoc(rs, g) ==
    [page_content |-> Join(ContentLines(rs, g), <<NL>>),
     metadata |-> [source |-> csv_path, department |-> g.key]]

\* one Document per row in place of one per bucket
BuildDocs_PerRow(rs, groups) ==
    [r \in 1..Len(rs) |-> BuildDoc(rs, [key |-> DeptKey(rs[r]), employees |-> <<r>>])]

BuildDocs(rs, groups) == [i \in 1..Len(groups) |-> BuildDoc(rs, groups[i])]

(***************************************************************************)
(* Chunking, lines 87-92: CharacterTextSplitter(separator="\n",            *)
(* chunk_size=CHUNK_SIZE, chunk_overlap=CHUNK_OVERLAP).split_documents.    *)
(* split_text splits the text on the separator, drops the empty pieces,    *)
(* and merges consecutive pieces into chunks of at most chunk_size         *)
(* characters, joined by the separator and stripped of surrounding         *)
(* whitespace; a chunk starts with the trailing pieces of the previous     *)
(* chunk that fit in chunk_overlap.  A single piece longer than chunk_size *)
(* is kept whole.  Each chunk carries a copy of its Document's metadata.   *)
(***************************************************************************)
IsSpace(c) == c \in {SP, NL}

SepPositions(s, sep) == {i \in 1..Len(s) : s[i] = sep}

\* the k-th smallest element of a set of integers
Nth(S, k) == CHOOSE p \in S : Cardinality({q \in S : q < p}) = k - 1

\* text.split(sep) for a one-character separator
SplitOn(s, sep) ==
    LET P == SepPositions(s, sep)
        n == Cardinality(P)
        from(k) == IF k = 1 THEN 1 ELSE Nth(P, k - 1) + 1
        to(k) == IF k = n + 1 THEN Len(s) ELSE Nth(P, k) - 1
    IN  [k \in 1..(n + 1) |-> SubSeq(s, from(k), to(k))]

\* the empty pieces kept
NonEmpty_Keep(parts) == parts

\* [s for s in splits if s != ""]
NonEmpty(parts) == SelectSeq(parts, LAMBDA p : p # <<>>)

RECURSIVE FirstKept(_, _)
\* the index of the first character from i on that is not whitespace
FirstKept(s, i) ==
    IF i > Len(s) \/ ~IsSpace(s[i]) THEN i ELSE FirstKept(s, i + 1)

RECURSIVE LastKept(_, _)
\* the index of the last character up to i that is not whitespace
LastKept(s, i) ==
    IF i < 1 \/ ~IsSpace(s[i]) THEN i ELSE LastKept(s, i - 1)

\* str.strip()
Strip(s) == SubSeq(s, FirstKept(s, 1), LastKept(s, Len(s)))

\* TextSplitter._join_docs: the chunk, or nothing when it is empty
JoinDocs(cur, sep) ==
    LET text == Strip(Join(cur, <<sep>>))
    IN  IF text = <<>> THEN <<>> ELSE <<text>>

SepLen(n) == IF n > 0 THEN 1 ELSE 0

RECURSIVE Shrink(_, _, _)
\* the while loop of TextSplitter._merge_splits
Shrink(cur, total, len) ==
    IF total > CHUNK_OVERLAP
       \/ (total + len + SepLen(Len(cur)) > CHUNK_SIZE /\ total > 0)
    THEN Shrink(Tail(cur), total - (Len(cur[1]) + SepLen(Len(cur) - 1)), len)
    ELSE [cur |-> cur, total |-> total]

RECURSIVE MergeFrom(_, _, _, _, _)
MergeFrom(splits, i, out, cur, total) ==
    IF i > Len(splits) THEN out \o JoinDocs(cur, NL)
    ELSE LET d == splits[i]
             len == Len(d)
             over == total + len + SepLen(Len(cur)) > CHUNK_SIZE /\ Len(cur) > 0
             out1 == IF over THEN out \o JoinDocs(cur, NL) ELSE out
             st == IF over THEN Shrink(cur, total, len)
                   ELSE [cur |-> cur, total |-> total]
             cur2 == Append(st.cur, d)
         IN  MergeFrom(splits, i + 1, out1, cur2,
                       st.total + len + SepLen(Len(cur2) - 1))

MergeSplits(splits) == MergeFrom(splits, 1, <<>>, <<>>, 0)

SplitText(text) == MergeSplits(NonEmpty(SplitOn(text, NL)))

SplitDocument(doc) ==
    LET chunks == SplitText(doc.page_content)
    IN  [j \in 1..Len(chunks) |->
            [page_content |-> chunks[j], metadata |-> doc.metadata]]

RECURSIVE SplitDocuments(_)
SplitDocuments(ds) ==
    IF ds = <<>> THEN <<>>
    ELSE SplitDocument(Head(ds)) \o SplitDocuments(Tail(ds))

(***************************************************************************)
(* Retrieval, lines 113-119: the retriever asks the store for the k most   *)
(* similar entries.  The similarity ranking is the collaborator's: for a   *)
(* given embedding model it is a function of the query and the entries,    *)
(* here the order of insertion or its reverse; the store returns the first *)
(* k entries of the ranking.                                               *)
(***************************************************************************)
Reverse(s) == [i \in 1..Len(s) |-> s[Len(s) + 1 - i]]

Ranking(model, q, entries) ==
    IF (model + q) % 2 = 0 THEN entries ELSE Reverse(entries)

TopK(ranked, k) == SubSeq(ranked, 1, IF Len(ranked) < k THEN Len(ranked) ELSE k)

\* one more than the configured k
SearchK_OffByOne == RETRIEVER_SEARCH_K + 1

\* search_kwargs={"k": RETRIEVER_SEARCH_K}
SearchK == RETRIEVER_SEARCH_K

\* lines 123-126: one report entry per result, in the order of results
ReportOf(res) ==
    [i \in 1..Len(res) |->
        [rank |-> i,
         department |-> res[i].metadata.department,
         preview |-> SubSeq(res[i].page_content, 1,
                            IF Len(res[i].page_content) < PREVIEW_LEN
                            THEN Len(res[i].page_content) ELSE PREVIEW_LEN)]]

\* lines 146-151: the romanised probe queries
test_queries ==
    <<"jinjibu ni shozoku shite iru juugyouin", "jinjibu",
      "eigyoubu no shain", "IT-bu no sutaffu">>

Msg(kind, arg) == [kind |-> kind, arg |-> arg]

(***************************************************************************)
(* The inputs: the CSV source and the entries left in the persist          *)
(* directory by earlier runs.                                              *)
(***************************************************************************)
HR == <<"H", "R">>
Sales == <<"S", "a", "l", "e", "s">>
LongText == [i \in 1..LongLen |-> "x"]

HeaderCanon ==
    <<"shainID", "shimei", "seibetsu", "nenrei", "kubun", "busho",
      "yakushoku", "skill", "shikaku">>
HeaderDeptFirst ==
    <<"busho", "skill", "shikaku", "yakushoku", "kubun", "nenrei",
      "seibetsu", "shimei", "shainID">>
HeaderNoDept ==
    <<"shainID", "shimei", "seibetsu", "nenrei", "kubun",
      "yakushoku", "skill", "shikaku">>
Headers == {HeaderCanon, HeaderDeptFirst, HeaderNoDept}

\* a line of the source: its department, its skill set, how many cells it has
RowInputs ==
    { [dept |-> HR,    skill |-> <<"A">>,              cells |-> "all"],
      [dept |-> Sales, skill |-> <<"a", NL, "b", SP>>, cells |-> "all"],
      [dept |-> <<>>,  skill |-> LongText,             cells |-> "all"],
      [dept |-> HR,    skill |-> <<"A">>,              cells |-> "short"],
      [dept |-> HR,    skill |-> <<"A">>,              cells |-> "none"] }

DigitOf(i) == <<"1", "2", "3", "4", "5", "6", "7", "8", "9">>[i]

CellValue(field, inp, i) ==
    CASE field = "busho" -> inp.dept
      [] field = "skill" -> inp.skill
      [] field = "shainID" -> <<"E", DigitOf(i)>>
      [] field = "nenrei" -> <<"3", "0">>
      [] OTHER -> <<"v">>

CellsOf(header, inp, i) ==
    LET all == [c \in 1..Len(header) |-> CellValue(header[c], inp, i)]
    IN  CASE inp.cells = "all" -> all
          [] inp.cells = "short" -> SubSeq(all, 1, ShortCells)
          [] OTHER -> <<>>

LinesOf(header, inps) == [i \in 1..Len(inps) |-> CellsOf(header, inps[i], i)]

RowInputSeqs == UNION {[1..n -> RowInputs] : n \in 0..MaxRows}

NoFile == [exists |-> FALSE, readable |-> FALSE, header |-> <<>>, lines |-> <<>>]

Files ==
    {NoFile}
    \cup {[exists |-> TRUE, readable |-> FALSE, header |-> HeaderCanon, lines |-> <<>>]}
    \cup {[exists |-> TRUE, readable |-> TRUE, header |-> h, lines |-> LinesOf(h, inps)] :
             h \in Headers, inps \in RowInputSeqs}

OldEntry(i) ==
    [page_content |-> <<"o", "l", "d", DigitOf(i)>>,
     metadata |-> [source |-> csv_path, department |-> Str(<<"o", "l", "d">>)]]

PriorStores == {<<>>, [i \in 1..MaxPrior |-> OldEntry(i)]}

Init ==
    /\ file \in Files
    /\ store \in PriorStores
    /\ ranker \in {0, 1}
    /\ pc = "Idle"
    /\ rows = <<>>
    /\ dept_groups = <<>>
    /\ docs = <<>>
    /\ texts = <<>>
    /\ vectorstore = FALSE
    /\ qi = 1
    /\ results = <<>>
    /\ calls = <<>>
    /\ log = <<>>

(***************************************************************************)
(* main, lines 131-136: the banner, then the call of load_employee_csv.    *)
(***************************************************************************)
CallLoad ==
    /\ pc = "Idle"
    /\ pc' = "Loading"
    /\ log' = Append(log, Msg("banner", csv_path))
    /\ UNCHANGED <<file, store, ranker, rows, dept_groups, docs, texts, vectorstore,
                   qi, results, calls>>

\* load_employee_csv without the test of line 26: open raises
NotFound_Unchecked ==
    /\ pc = "Loading"
    /\ ~file.exists
    /\ log' = Append(log, Msg("reading", csv_path))
    /\ pc' = "Crashed"
    /\ UNCHANGED <<file, store, ranker, rows, dept_groups, docs, texts, vectorstore,
                   qi, results, calls>>

(***************************************************************************)
(* load_employee_csv, lines 26-28, and main, lines 138-140: the source     *)
(* does not exist; [] is returned and main reports and returns.            *)
(***************************************************************************)
NotFound ==
    /\ pc = "Loading"
    /\ ~file.exists
    /\ docs' = <<>>
    /\ log' = log \o <<Msg("not_found", csv_path), Msg("no_documents", 0)>>
    /\ pc' = "Aborted"
    /\ UNCHANGED <<file, store, ranker, rows, dept_groups, texts, vectorstore,
                   qi, results, calls>>

(***************************************************************************)
(* load_employee_csv, lines 30-34: open or the reader raises; nothing      *)
(* catches the exception and the run ends with it.                         *)
(***************************************************************************)
ReadFails ==
    /\ pc = "Loading"
    /\ file.exists
    /\ ~file.readable
    /\ log' = Append(log, Msg("reading", csv_path))
    /\ pc' = "Crashed"
    /\ UNCHANGED <<file, store, ranker, rows, dept_groups, docs, texts, vectorstore,
                   qi, results, calls>>

\* lines 46-48: the bucket count, then one line per bucket
GroupReport(groups) ==
    <<Msg("groups", Len(groups))>>
    \o [i \in 1..Len(groups) |->
          Msg("group", <<groups[i].key, Len(groups[i].employees)>>)]

(***************************************************************************)
(* load_employee_csv, lines 30-48: read the rows and group them.           *)
(***************************************************************************)
ReadAndGroup ==
    /\ pc = "Loading"
    /\ file.exists
    /\ file.readable
    /\ rows' = DictReader(file.header, file.lines)
    /\ dept_groups' = GroupByDept(rows')
    /\ log' = log \o <<Msg("reading", csv_path), Msg("rows", Len(rows'))>>
                  \o GroupReport(dept_groups')
    /\ pc' = "Grouped"
    /\ UNCHANGED <<file, store, ranker, docs, texts, vectorstore, qi, results, calls>>

\* lines 75-78: the sample of the first Document
SampleReport(ds) ==
    IF ds = <<>> THEN <<>>
    ELSE <<Msg("sample",
               <<ds[1].metadata.department,
                 SubSeq(ds[1].page_content, 1,
                        IF Len(ds[1].page_content) < SAMPLE_LEN
                        THEN Len(ds[1].page_content) ELSE SAMPLE_LEN)>>)>>

(***************************************************************************)
(* load_employee_csv, lines 50-80: one Document per bucket.                *)
(***************************************************************************)
BuildDocuments ==
    /\ pc = "Grouped"
    /\ docs' = BuildDocs(rows, dept_groups)
    /\ log' = log \o <<Msg("documents", Len(docs'))>> \o SampleReport(docs')
    /\ pc' = "Built"
    /\ UNCHANGED <<file, store, ranker, rows, dept_groups, texts, vectorstore,
                   qi, results, calls>>

\* the test of line 138 inverted: if docs
NoDocs_Inverted(ds) == ds # <<>>

\* main, line 138: if not docs
NoDocs(ds) == ds = <<>>

(***************************************************************************)
(* main, lines 138-140: no Document was returned.                          *)
(***************************************************************************)
EmptyCorpus ==
    /\ pc = "Built"
    /\ NoDocs(docs)
    /\ log' = Append(log, Msg("no_documents", 0))
    /\ pc' = "Aborted"
    /\ UNCHANGED <<file, store, ranker, rows, dept_groups, docs, texts, vectorstore,
                   qi, results, calls>>

\* create_vector_store with the error of the build caught and ignored
CreateVectorStore_Swallow ==
    /\ pc = "Built"
    /\ ~NoDocs(docs)
    /\ texts' = SplitDocuments(docs)
    /\ calls' = Append(calls, [op |-> "build", query |-> "", k |-> Len(texts')])
    /\ \/ /\ store' = store \o texts'
          /\ vectorstore' = TRUE
          /\ log' = log \o <<Msg("chunks", Len(texts')), Msg("store_created", 0)>>
       \/ /\ log' = Append(log, Msg("chunks", Len(texts')))
          /\ UNCHANGED <<store, vectorstore>>
    /\ pc' = "Indexed"
    /\ UNCHANGED <<file, ranker, rows, dept_groups, docs, qi, results>>

(***************************************************************************)
(* create_vector_store, lines 84-106, called at line 143.  The chunks are  *)
(* added to the persisted collection; an error raised by the embedding     *)
(* model or by Chroma is not caught and ends the run.                      *)
(***************************************************************************)
CreateVectorStore ==
    /\ pc = "Built"
    /\ ~NoDocs(docs)
    /\ texts' = SplitDocuments(docs)
    /\ calls' = Append(calls, [op |-> "build", query |-> "", k |-> Len(texts')])
    /\ \/ /\ store' = store \o texts'
          /\ vectorstore' = TRUE
          /\ log' = log \o <<Msg("chunks", Len(texts')), Msg("store_created", 0)>>
          /\ pc' = "Indexed"
       \/ /\ log' = Append(log, Msg("chunks", Len(texts')))
          /\ pc' = "Crashed"
          /\ UNCHANGED <<store, vectorstore>>
    /\ UNCHANGED <<file, ranker, rows, dept_groups, docs, qi, results>>

(***************************************************************************)
(* test_search, lines 108-128, called in the loop of lines 153-154.        *)
(***************************************************************************)
TestSearch ==
    /\ pc \in {"Indexed", "Querying"}
    /\ qi <= Len(test_queries)
    /\ calls' = Append(calls, [op |-> "query", query |-> test_queries[qi], k |-> SearchK])
    /\ \/ /\ results' = TopK(Ranking(ranker, qi, store), SearchK)
          /\ log' = log \o <<Msg("query", test_queries[qi]),
                             Msg("found", Len(results')),
                             Msg("results", ReportOf(results'))>>
          /\ qi' = qi + 1
          /\ pc' = "Querying"
       \/ /\ log' = Append(log, Msg("query", test_queries[qi]))
          /\ pc' = "Crashed"
          /\ UNCHANGED <<qi, results>>
    /\ UNCHANGED <<file, store, ranker, rows, dept_groups, docs, texts, vectorstore>>

(***************************************************************************)
(* main, lines 156-158: the loop is over.                                  *)
(***************************************************************************)
Finish ==
    /\ pc \in {"Indexed", "Querying"}
    /\ qi > Len(test_queries)
    /\ log' = Append(log, Msg("done", 0))
    /\ pc' = "Done"
    /\ UNCHANGED <<file, store, ranker, rows, dept_groups, docs, texts, vectorstore,
                   qi, results, calls>>

Next ==
    \/ CallLoad
    \/ NotFound
    \/ ReadFails
    \/ ReadAndGroup
    \/ BuildDocuments
    \/ EmptyCorpus
    \/ CreateVectorStore
    \/ TestSearch
    \/ Finish

Spec == Init /\ [][Next]_vars

(***************************************************************************)
(* Properties.                                                             *)
(***************************************************************************)
HasMsg(kind) == \E i \in 1..Len(log) : log[i].kind = kind

HasMsgArg(kind, arg) == \E i \in 1..Len(log) : log[i].kind = kind /\ log[i].arg = arg

LastMsgIs(kind) == log # <<>> /\ log[Len(log)].kind = kind

CallsOf(op) == {i \in 1..Len(calls) : calls[i].op = op}

Phases == <<"Idle", "Loading", "Grouped", "Built", "Indexed", "Querying", "Done">>

PhaseNo(p) == CHOOSE i \in 1..Len(Phases) : Phases[i] = p

\* a change of phase along the line Idle, Loading, ..., Done
LinearStep ==
    /\ pc \in {"Idle", "Loading", "Grouped", "Built", "Indexed", "Querying"}
    /\ pc' \in {"Loading", "Grouped", "Built", "Indexed", "Querying", "Done"}
    /\ PhaseNo(pc') = PhaseNo(pc) + 1

\* the run ends with an exception nothing catches
RaiseStep == pc' = "Crashed" /\ pc \in {"Loading", "Built", "Indexed", "Querying"}

\* C1 as stated: every change of phase is the next phase of the line Idle,
\* Loading, Grouped, Built, Indexed, Querying, Done, or enters Aborted from
\* Loading (the source does not exist) or from Grouped (zero Documents);
\* a run that ends with an uncaught exception is left aside.
C1_AbortOnlyFromLoadingOrGrouped ==
    [][pc' # pc =>
         \/ LinearStep
         \/ RaiseStep
         \/ pc' = "Aborted" /\ pc = "Loading" /\ ~file.exists
         \/ pc' = "Aborted" /\ pc = "Grouped" /\ dept_groups = <<>>]_vars

\* C1 amended: every change of phase is the next phase of the line, or ends
\* the run with an uncaught exception, or enters Aborted from Loading (the
\* source does not exist) or from Built with zero Documents: the Builder has
\* run and reported before main tests the list it returned.
C1_PhaseOrder ==
    [][pc' # pc =>
         \/ LinearStep
         \/ RaiseStep
         \/ pc' = "Aborted" /\ pc = "Loading" /\ ~file.exists
         \/ pc' = "Aborted" /\ pc = "Built" /\ docs = <<>>
                            /\ HasMsgArg("documents", 0)]_vars

\* an existing source whose lines are all blank: Aborted after the Builder
C1_Witness ==
    /\ pc = "Aborted"
    /\ file.exists
    /\ file.lines # <<>>
    /\ HasMsgArg("documents", 0)

\* C2: when the source does not exist, create_vector_store and test_search
\* are never called (no chunk, no store, no call of the collaborator), the
\* run leaves Loading only to Aborted, and the transcript then holds the
\* not-found message naming the path.
C2_NotFoundStopsBeforeIndexer ==
    ~file.exists =>
        /\ calls = <<>>
        /\ texts = <<>>
        /\ ~vectorstore
        /\ pc \in {"Idle", "Loading", "Aborted"}
        /\ pc = "Aborted" => HasMsgArg("not_found", csv_path)
        /\ pc = "Loading" => ENABLED Next

C2_Witness == ~file.exists /\ pc = "Aborted" /\ HasMsg("not_found")

\* the source exists, can be read and has no data row
ZeroRows == file.exists /\ file.readable /\ \A i \in 1..Len(file.lines) : file.lines[i] = <<>>

\* C3: when the source exists and has zero data rows, no exception ends the
\* run, the loader returns no Document, the run goes on until Aborted, where
\* the last message is the empty-corpus report, and create_vector_store is
\* never called.
C3_ZeroRowsAbort ==
    ZeroRows =>
        /\ pc \in {"Idle", "Loading", "Grouped", "Built", "Aborted"}
        /\ rows = <<>> /\ dept_groups = <<>> /\ docs = <<>>
        /\ calls = <<>> /\ texts = <<>> /\ ~vectorstore
        /\ pc # "Aborted" => ENABLED Next
        /\ pc = "Aborted" => LastMsgIs("no_documents") /\ ~HasMsg("not_found")

C3_Witness == ZeroRows /\ pc = "Aborted" /\ HasMsgArg("rows", 0)

\* the build was called and raised
BuildRaised == pc = "Crashed" /\ CallsOf("build") # {} /\ ~vectorstore /\ CallsOf("query") = {}

\* C4: every query call comes after a build call that returned the store;
\* with zero Documents nothing is called at all; a build that raised ends
\* the run (no step follows), is not tried again and is followed by no query.
C4_QueryOnlyAfterBuild ==
    /\ \A i \in CallsOf("query") : vectorstore /\ \E j \in CallsOf("build") : j < i
    /\ Cardinality(CallsOf("build")) <= 1
    /\ (pc \notin {"Idle", "Loading", "Grouped"} /\ docs = <<>>) => calls = <<>>
    /\ (CallsOf("build") # {} /\ ~vectorstore) =>
           /\ pc = "Crashed"
           /\ CallsOf("query") = {}
           /\ ~ENABLED Next

C4_Witness == BuildRaised /\ HasMsg("chunks")

RECURSIVE SumSizes(_)
SumSizes(groups) ==
    IF groups = <<>> THEN 0 ELSE Len(Head(groups).employees) + SumSizes(Tail(groups))

\* the places <<bucket, position>> at which row r is held
PlacesOf(groups, r) ==
    {<<i, j>> \in (1..Len(groups)) \X (1..Len(rows)) :
        j <= Len(groups[i].employees) /\ groups[i].employees[j] = r}

Grouped == pc \notin {"Idle", "Loading"}

\* C5: once the rows are grouped, the rows are the non-blank lines of the
\* source, the bucket sizes sum to the number of rows, every row is held at
\* exactly one place of exactly one bucket, and every bucket holds its rows
\* in source order.
C5_GroupingKeepsEveryRecord ==
    Grouped =>
        /\ file.readable =>
              Len(rows) = Cardinality({i \in 1..Len(file.lines) : file.lines[i] # <<>>})
        /\ SumSizes(dept_groups) = Len(rows)
        /\ \A r \in 1..Len(rows) : Cardinality(PlacesOf(dept_groups, r)) = 1
        /\ \A i \in 1..Len(dept_groups) :
              \A j, k \in 1..Len(dept_groups[i].employees) :
                 j < k => dept_groups[i].employees[j] < dept_groups[i].employees[k]

\* three rows in two buckets, one bucket holding two rows that are not adjacent
C5_Witness ==
    /\ pc = "Grouped"
    /\ Len(rows) = MaxRows
    /\ \E i \in 1..Len(dept_groups) :
          /\ Len(dept_groups[i].employees) >= 2
          /\ dept_groups[i].employees[2] > dept_groups[i].employees[1] + 1

DocsBuilt == pc \notin {"Idle", "Loading", "Grouped"}

\* the positions of text at which a record line starts: its first label
LineStarts(text) == {p \in 1..Len(text) : text[p] = "sha"}

\* the number of record lines of text that start with the characters m
StartingWith(text, m) ==
    Cardinality({p \in LineStarts(text) :
                    p + Len(m) - 1 <= Len(text) /\ SubSeq(text, p, p + Len(m) - 1) = m})

\* the start of a record line that names the employee of row r
IdMark(r) == <<"sha", "in", "I", "D", ":", SP>> \o Format(rows[r]["shainID"]) \o <<",", SP>>

\* C6: once the Documents are built there is one Document per bucket, in the
\* order of the buckets, carrying the bucket's key as 'department'; no two
\* Documents carry the same department; a Document has as many record lines
\* as its bucket has rows, and the employee of a row is named in a Document
\* exactly when the row is in that Document's bucket.
C6_OneDocumentPerGroupKey ==
    DocsBuilt =>
        /\ Len(docs) = Len(dept_groups)
        /\ \A i, j \in 1..Len(docs) :
              i # j => docs[i].metadata.department # docs[j].metadata.department
        /\ \A i \in 1..Len(docs) :
              /\ docs[i].metadata.department = dept_groups[i].key
              /\ Cardinality(LineStarts(docs[i].page_content))
                    = Len(dept_groups[i].employees)
              /\ \A r \in 1..Len(rows) :
                    ~rows[r]["shainID"].isNone =>
                       LET n == StartingWith(docs[i].page_content, IdMark(r))
                       IN  /\ n <= 1
                           /\ n = 1 <=> \E j \in 1..Len(dept_groups[i].employees) :
                                           dept_groups[i].employees[j] = r

\* the rows HR, HR, Sales: buckets of 2 and 1 rows, 2 Documents
C6_Witness ==
    /\ pc = "Built"
    /\ Len(rows) = 3
    /\ Len(docs) = 2
    /\ dept_groups[1].key = Str(HR) /\ Len(dept_groups[1].employees) = 2
    /\ dept_groups[2].key = Str(Sales) /\ Len(dept_groups[2].employees) = 1
    /\ docs[2].metadata.department = Str(Sales)

\* the department of a row is absent, None or empty
DeptMissing(row) ==
    \/ "busho" \notin DOMAIN row
    \/ row["busho"].isNone
    \/ row["busho"].s = <<>>

\* C7: once the rows are grouped, every row whose department is absent,
\* None or empty is in the bucket of the sentinel key, and no bucket is
\* keyed by None or by the empty string.
C7_MissingDeptGoesToUnknown ==
    Grouped =>
        /\ \A r \in 1..Len(rows) :
              DeptMissing(rows[r]) =>
                 \E i \in 1..Len(dept_groups) :
                    /\ dept_groups[i].key = UNKNOWN_DEPT
                    /\ \E j \in 1..Len(dept_groups[i].employees) :
                          dept_groups[i].employees[j] = r
        /\ \A i \in 1..Len(dept_groups) :
              ~dept_groups[i].key.isNone /\ dept_groups[i].key.s # <<>>

\* the fields of a record line, in the order of the line: label, key, suffix
FieldTable ==
    << <<(<<"sha", "in", "I", "D">>), "shainID", <<>> >>,
       <<(<<"shi", "mei">>), "shimei", <<>> >>,
       <<(<<"sei", "betsu">>), "seibetsu", <<>> >>,
       <<(<<"nen", "rei">>), "nenrei", <<"sai">> >>,
       <<(<<"juu", "gyou", "in", "ku", "bun">>), "kubun", <<>> >>,
       <<(<<"bu", "sho">>), "busho", <<>> >>,
       <<(<<"yaku", "shoku">>), "yakushoku", <<>> >>,
       <<(<<"su", "ki", "ru", "se", "tto", "to">>), "skill", <<>> >>,
       <<(<<"ho", "yuu", "shi", "kaku">>), "shikaku", <<>> >> >>

\* 'label: value' of the k-th field of a row
Pair(row, k) ==
    FieldTable[k][1] \o <<":", SP>>
    \o (IF FieldTable[k][2] \in DOMAIN row
        THEN (IF row[FieldTable[k][2]].isNone THEN <<"N", "o", "n", "e">>
              ELSE row[FieldTable[k][2]].s)
        ELSE <<>>)
    \o FieldTable[k][3]

RecordLine(row) == Join([k \in 1..Len(FieldTable) |-> Pair(row, k)], <<",", SP>>)

TitleLine(key) ==
    <<"[[">> \o (IF key.isNone THEN <<"N", "o", "n", "e">> ELSE key.s)
    \o <<"no", "juu", "gyou", "in", "ichi", "ran", "]]">>

HasNewline(text) == \E p \in 1..Len(text) : text[p] = NL

\* no value written for bucket g holds a newline
NoNewlineIn(g) ==
    /\ ~HasNewline(g.key.s)
    /\ \A j \in 1..Len(g.employees) :
          \A f \in DOMAIN rows[g.employees[j]] : ~HasNewline(rows[g.employees[j]][f].s)

\* the lines of a text: the pieces between its newlines
LinesOfText(text) == SplitOn(text, NL)

\* C8 as stated: for every bucket of n rows whose values hold no newline,
\* the Document is n+1 lines: the header line, then at once the record lines
\* of the rows in bucket order, each the fixed fields in the fixed order.
C8_HeaderThenRecords ==
    DocsBuilt =>
        \A i \in 1..Len(docs) :
            NoNewlineIn(dept_groups[i]) =>
                LET lines == LinesOfText(docs[i].page_content)
                    emps == dept_groups[i].employees
                IN  /\ Len(lines) = Len(emps) + 1
                    /\ lines[1] = TitleLine(dept_groups[i].key)
                    /\ \A j \in 1..Len(emps) : lines[j + 1] = RecordLine(rows[emps[j]])

\* C8 amended: for every bucket of n rows whose values hold no newline, the
\* Document is n+2 lines: the header line, one empty line, then the record
\* lines of the rows in bucket order, each the fixed fields in the fixed
\* order as 'label: value' joined by comma-space, whatever the column order.
C8_HeaderBlankThenRecords ==
    DocsBuilt =>
        \A i \in 1..Len(docs) :
            NoNewlineIn(dept_groups[i]) =>
                LET lines == LinesOfText(docs[i].page_content)
                    emps == dept_groups[i].employees
                IN  /\ Len(lines) = Len(emps) + 2
                    /\ lines[1] = TitleLine(dept_groups[i].key)
                    /\ lines[2] = <<>>
                    /\ \A j \in 1..Len(emps) : lines[j + 2] = RecordLine(rows[emps[j]])

\* a bucket of two rows read from the source whose first column is the department
C8_Witness ==
    /\ pc = "Built"
    /\ file.header = HeaderDeptFirst
    /\ \E i \in 1..Len(docs) :
          /\ NoNewlineIn(dept_groups[i])
          /\ Len(dept_groups[i].employees) = 2
          /\ Len(LinesOfText(docs[i].page_content)) = 4

ChunksBuilt == CallsOf("build") # {}

\* the chunks that carry the department of Document d
SegmentsOf(d) ==
    SelectSeq(texts, LAMBDA t : t.metadata.department = d.metadata.department)

\* a text without its empty lines and without surrounding whitespace
WithoutEmptyLines(text) ==
    Strip(Join(SelectSeq(LinesOfText(text), LAMBDA l : l # <<>>), <<NL>>))

Healthy == vectorstore /\ pc \in {"Indexed", "Querying", "Done"}

MsgsOf(kind) == SelectSeq(log, LAMBDA m : m.kind = kind)

Shorter(a, b) == IF a < b THEN a ELSE b

\* C10: while the build has returned and no query has raised, the calls of
\* the collaborator are the build followed by one query per probe query so
\* far, in the order of the list, each with k = RETRIEVER_SEARCH_K; a result
\* has at most RETRIEVER_SEARCH_K entries; the report of the last query
\* lists its results in the order returned, with department and preview;
\* Done comes only after the report of the last probe query.
C10_OneQueryPerProbeInOrder ==
    Healthy =>
        /\ qi \in 1..(Len(test_queries) + 1)
        /\ Len(calls) = qi
        /\ calls[1].op = "build"
        /\ \A i \in 1..(qi - 1) :
              /\ calls[i + 1].op = "query"
              /\ calls[i + 1].query = test_queries[i]
              /\ calls[i + 1].k = RETRIEVER_SEARCH_K
        /\ Len(results) <= RETRIEVER_SEARCH_K
        /\ Len(MsgsOf("query")) = qi - 1
        /\ \A i \in 1..(qi - 1) : MsgsOf("query")[i].arg = test_queries[i]
        /\ Len(MsgsOf("results")) = qi - 1
        /\ qi > 1 =>
              LET rep == MsgsOf("results")[qi - 1].arg
              IN  /\ Len(rep) = Len(results)
                  /\ \A i \in 1..Len(results) :
                        /\ rep[i].rank = i
                        /\ rep[i].department = results[i].metadata.department
                        /\ rep[i].preview =
                              SubSeq(results[i].page_content, 1,
                                     Shorter(Len(results[i].page_content), PREVIEW_LEN))
        /\ pc = "Done" =>
              /\ qi = Len(test_queries) + 1
              /\ LastMsgIs("done")
              /\ log[Len(log) - 1].kind = "results"
        /\ pc # "Done" => ~HasMsg("done")

\* the run is Done and the store held more entries than a result may have
C10_Witness ==
    /\ pc = "Done"
    /\ Len(store) > RETRIEVER_SEARCH_K
    /\ Len(results) = RETRIEVER_SEARCH_K
    /\ Cardinality(CallsOf("query")) = Len(test_queries)

=============================================================================
